---- MODULE Spec2Model ----
(***************************************************************************)
(* AtomGuard backend: the decision-fusion pipeline of POST /api/analyze.   *)
(*                                                                         *)
(* Representation.                                                         *)
(*  - A probability is an integer in units of 1e-5 (ONE = 1.0); a          *)
(*    classifier output is a Float record that is finite, NaN, +inf or     *)
(*    -inf, compared the way IEEE / Python compare them.                   *)
(*  - A reported confidence is an integer in units of 0.01 percent         *)
(*    (9500 = 95.0), the value of round(ml_confidence * 100, 2).           *)
(*  - A submitted value is a record of the parts of its text: type,        *)
(*    surrounding whitespace, scheme, userinfo, host, port, path, query,   *)
(*    fragment, and whether the authority holds an unmatched '['.  A host  *)
(*    is a record [labels, octets]: a dotted name is its sequence of       *)
(*    labels, a dotted-quad literal is its sequence of four numbers, the   *)
(*    empty host (urlparse's hostname None) has both empty.                *)
(***************************************************************************)
EXTENDS Integers, Sequences, FiniteSets, TLC

VARIABLES
    ml_model,   \* process-wide classifier reference (app.py ml_model)
    pc,         \* position of the worker: "idle", "run", "done"
    request,    \* the request being served and what its collaborators return
    locals,     \* analyze_url's local variables at the end of the handler
    response    \* the (body, status) analyze_url returned

vars == <<ml_model, pc, request, locals, response>>

None == "None"

\* ------------------------------------------------------------ numbers

\* 1.0 in probability units
ONE == 100000

\* bound of the model: classifier outputs are sampled every 1/ProbGrid
ProbGrid == 10

PHISHING_HARD_THRESHOLD == 85000

PHISHING_THRESHOLD == 70000

SUSPICIOUS_THRESHOLD == 40000

Fin(v) == [kind |-> "fin", val |-> v]
NaN    == [kind |-> "nan", val |-> 0]
PosInf == [kind |-> "inf", val |-> 0]
NegInf == [kind |-> "ninf", val |-> 0]

\* a < b on floats; every comparison with NaN is false
FLt(a, b) ==
    IF a.kind = "nan" \/ b.kind = "nan" THEN FALSE
    ELSE IF a.kind = "ninf" THEN b.kind # "ninf"
    ELSE IF a.kind = "inf" THEN FALSE
    ELSE IF b.kind = "inf" THEN TRUE
    ELSE IF b.kind = "ninf" THEN FALSE
    ELSE a.val < b.val

\* Python's min(a, b): a unless b < a;  max(a, b): a unless b > a
PyMin(a, b) == IF FLt(b, a) THEN b ELSE a
PyMax(a, b) == IF FLt(a, b) THEN b ELSE a

\* max(0.0, min(1.0, x))
Clamp(x) == PyMax(Fin(0), PyMin(Fin(ONE), x))

\* n / d rounded to the nearest integer, ties to even (Python's round/format)
RoundHalfEven(n, d) ==
    LET q == n \div d
        r == n % d
    IN  IF 2 * r < d THEN q
        ELSE IF 2 * r > d THEN q + 1
        ELSE IF q % 2 = 0 THEN q ELSE q + 1

\* round(ml_confidence * 100, 2), in units of 0.01 percent
Round2(p) == RoundHalfEven(p, 10)

\* f"{ml_confidence:.1%}", in units of 0.1 percent
Pct1(p) == RoundHalfEven(p, 100)

\* ------------------------------------------------------------ URLs

Name(ls) == [labels |-> ls, octets |-> <<>>]
Ip(os)   == [labels |-> <<>>, octets |-> os]
EmptyHost == [labels |-> <<>>, octets |-> <<>>]

LongToken == "aaaaaaaaaaaaaaaaaaaaaaaaaaaaaaaaaaaaaaaaaaaaaaaaaaaaaaaaaaaaaaaaaaaaaaaaaaaaaaaa"

Hosts ==
    { Name(<<"wikipedia", "org">>),
      Name(<<"en", "wikipedia", "org">>),
      Name(<<"evilwikipedia", "org">>),
      Name(<<"wikipedia", "org", "evil", "tk">>),
      Name(<<"google", "com">>),
      Name(<<"www", "google", "com">>),
      Name(<<"accounts", "google", "com">>),
      Name(<<"mail", "google", "com">>),
      Name(<<"www", "paypa1", "com">>),
      Name(<<"example", "com">>),
      EmptyHost,
      Ip(<<192, 168, 1, 1>>),
      Ip(<<10, 0, 0, 1>>),
      Ip(<<172, 16, 0, 1>>),
      Ip(<<172, 32, 0, 1>>),
      Ip(<<127, 0, 0, 1>>),
      Ip(<<8, 8, 8, 8>>),
      Ip(<<300, 1, 1, 1>>) }

Schemes == {"", "http", "https"}

Paths == { <<>>, <<"login">>, <<"admin">>, <<LongToken>> }

\* the string scheme://host/path (no scheme: host/path); an empty host is
\* written with a port, ":80", so that the authority is not empty
Url(scheme, host, path) ==
    [ type |-> "str", ws |-> 0, scheme |-> scheme, userinfo |-> "", host |-> host,
      port |-> IF host = EmptyHost THEN "80" ELSE "", path |-> path,
      query |-> "", fragment |-> "", bracket |-> FALSE ]

\* the empty string
EmptyString == [Url("", EmptyHost, <<>>) EXCEPT !.port = ""]

\* a JSON body without the key "url" ("absent"), or with a url that is not a
\* string
NoString(type) == [EmptyString EXCEPT !.type = type]

RECURSIVE Repeat(_, _)
Repeat(str, n) == IF n = 0 THEN "" ELSE str \o Repeat(str, n - 1)

\* a path segment of 2080 characters
HugeToken == Repeat(LongToken, 26)

ExampleCom == Name(<<"example", "com">>)

\* other values of the "url" key: not a string, empty, blank, longer than
\* 2000 characters, without an authority, with an unmatched bracket, with
\* another scheme, a bare word, and well-formed strings with surrounding
\* blanks, userinfo, a port, a query and a fragment
OtherValues ==
    { NoString("absent"), NoString("null"), NoString("int"),
      EmptyString,
      [EmptyString EXCEPT !.ws = 3],
      Url("https", ExampleCom, <<HugeToken>>),
      [EmptyString EXCEPT !.scheme = "http"],
      [EmptyString EXCEPT !.scheme = "https", !.path = <<"login">>],
      [Url("http", ExampleCom, <<>>) EXCEPT !.bracket = TRUE],
      [Url("", ExampleCom, <<"login">>) EXCEPT !.bracket = TRUE],
      Url("ftp", ExampleCom, <<"login">>),
      Url("ftp", EmptyHost, <<>>),
      Url("", Name(<<"login">>), <<>>),
      [EmptyString EXCEPT !.userinfo = "user"],
      [Url("http", ExampleCom, <<"login">>) EXCEPT !.ws = 2],
      [Url("", Ip(<<192, 168, 1, 1>>), <<"admin">>) EXCEPT !.ws = 1],
      [Url("https", ExampleCom, <<"login">>) EXCEPT
           !.userinfo = "user", !.port = "8080", !.query = "q=1", !.fragment = "top"],
      [Url("http", Name(<<"example", "click">>), <<>>) EXCEPT !.query = "q=1"] }

Urls == { Url(s, h, p) : s \in Schemes, h \in Hosts, p \in Paths }

Values == Urls \cup OtherValues


\* ------------------------------------------------------------ text of a URL

RECURSIVE SumLen(_)
\* total length of the strings of a sequence
SumLen(toks) == IF toks = <<>> THEN 0 ELSE Len(Head(toks)) + SumLen(Tail(toks))

\* number of decimal digits of an octet
Digits(n) == IF n < 10 THEN 1 ELSE IF n < 100 THEN 2 ELSE 3

RECURSIVE SumDigits(_)
SumDigits(os) == IF os = <<>> THEN 0 ELSE Digits(Head(os)) + SumDigits(Tail(os))

\* len(parsed.hostname or '')
HostLen(h) ==
    IF h.labels # <<>> THEN SumLen(h.labels) + Len(h.labels) - 1
    ELSE IF h.octets # <<>> THEN SumDigits(h.octets) + Len(h.octets) - 1
    ELSE 0

\* length of a part that is written with one separator character when present
Sep(part) == IF part = "" THEN 0 ELSE Len(part) + 1

\* length of the authority as written: userinfo@host:port, with the stray '['
AuthorityLen(url) ==
    Sep(url.userinfo) + HostLen(url.host) + Sep(url.port)
        + (IF url.bracket THEN 1 ELSE 0)

\* hostname.count('.')
DotCount(h) ==
    IF h.labels # <<>> THEN Len(h.labels) - 1
    ELSE IF h.octets # <<>> THEN Len(h.octets) - 1
    ELSE 0

\* len(parsed.path): every path token is preceded by '/'
PathLen(path) == SumLen(path) + Len(path)

SchemeLen(scheme) ==
    IF scheme = "" THEN 0 ELSE Len(scheme) + 3

\* len(url.strip())
StrippedLen(url) ==
    SchemeLen(url.scheme) + AuthorityLen(url) + PathLen(url.path)
        + Sep(url.query) + Sep(url.fragment)

\* len(url) of the string as given, surrounding whitespace included
UrlLen(url) == StrippedLen(url) + url.ws

\* url.strip()
Strip(url) == [url EXCEPT !.ws = 0]

\* url.startswith(("http://", "https://")), for a string without leading whitespace
HasHttpPrefix(url) == url.scheme \in {"http", "https"}

\* urlparse(prefix + url), prefix being "" when the string starts with http://
\* or https:// and default + "://" otherwise.  A string with another scheme,
\* ftp://host/path, becomes http://ftp://host/path: its authority is "ftp:",
\* its hostname "ftp", and its path starts with "//host".  An unmatched '['
\* in the authority makes urlparse raise ValueError.
Parse(url, default) ==
    IF url.scheme \in {"", "http", "https"}
    THEN [ raises |-> url.bracket,
           scheme |-> IF url.scheme = "" THEN default ELSE url.scheme,
           netloc_len |-> AuthorityLen(url),
           hostname |-> url.host,
           path_len |-> PathLen(url.path),
           path_depth |-> Len(url.path) ]
    ELSE [ raises |-> FALSE,
           scheme |-> default,
           netloc_len |-> Len(url.scheme) + 1,
           hostname |-> Name(<<url.scheme>>),
           path_len |-> 2 + AuthorityLen(url) + PathLen(url.path),
           path_depth |-> 2 + Len(url.path) ]

\* urlparse inside try/except, as the extractors call it: when urlparse
\* raises, the exception is absorbed and hostname and path are ''
\* (variant: no try/except, the exception goes on to the caller)
ParseUncaught(url, default) == Parse(url, default)
ParseOrEmpty(url, default) ==
    LET p == Parse(url, default)
    IN  IF p.raises
        THEN [p EXCEPT !.raises = FALSE, !.hostname = EmptyHost, !.path_len = 0,
                       !.path_depth = 0]
        ELSE p

\* hostname.endswith(tld) for one of the dotted suffixes in tlds (given without
\* the dot): the last label is the tld and a label precedes it
EndsWithTld(h, tlds) ==
    /\ Len(h.labels) >= 2
    /\ h.labels[Len(h.labels)] \in tlds

\* re.match(r'^\d{1,3}(\.\d{1,3}){3}$', hostname)
MatchesIpPattern(h) ==
    /\ Len(h.octets) = 4
    /\ \A i \in 1..4 : h.octets[i] <= 999

\* the alphanumeric tokens of the URL text; substring searches of alphabetic
\* words are decided token by token
UrlTokens(url) ==
    {url.host.labels[i] : i \in 1..Len(url.host.labels)}
        \cup {url.path[i] : i \in 1..Len(url.path)}
        \cup {url.scheme, url.userinfo, url.query, url.fragment}

\* ------------------------------------------------------------ helpers.py

\* validate_url(url)
validate_url(url) ==
    IF url.type # "str" THEN FALSE
    ELSE IF StrippedLen(url) = 0 THEN FALSE
    ELSE IF StrippedLen(url) > 2000 THEN FALSE
    ELSE LET parsed == Parse(Strip(url), "http")
         IN  IF parsed.raises THEN FALSE
             ELSE IF parsed.scheme \notin {"http", "https"} THEN FALSE
             ELSE IF parsed.netloc_len = 0 THEN FALSE
             ELSE TRUE

\* extract_domain(url) or "": urlparse's hostname; None and "" are EmptyHost
extract_domain(url) == ParseOrEmpty(url, "http").hostname

\* ------------------------------------------------------------ ml_feature_extractor.py

ML_SUSPICIOUS_TLDS == {"tk", "ml", "ga", "cf", "gq", "xyz", "top", "click"}

\* extract_features(url): the 7-entry vector, in training order
extract_features(url) ==
    LET p == ParseOrEmpty(Strip(url), "https")
    IN  << UrlLen(url),
           HostLen(p.hostname),
           p.path_len,
           IF p.scheme = "https" THEN 1 ELSE 0,
           IF EndsWithTld(p.hostname, ML_SUSPICIOUS_TLDS) THEN 1 ELSE 0,
           IF MatchesIpPattern(p.hostname) THEN 1 ELSE 0,
           DotCount(p.hostname) >>

\* one call of extract_features: whether it raises to the caller and the list
\* it returns.  url.strip() raises for a value that is not a string; an
\* exception of urlparse that were not absorbed would reach the caller too.
extract_features_call(url) ==
    IF url.type # "str" THEN [raises |-> TRUE, value |-> <<>>]
    ELSE IF ParseOrEmpty(Strip(url), "https").raises THEN [raises |-> TRUE, value |-> <<>>]
    ELSE [raises |-> FALSE, value |-> extract_features(url)]

\* ------------------------------------------------------------ features/feature_extractor.py

RULE_SUSPICIOUS_TLDS == {"tk", "ml", "ga", "cf", "gq", "xyz"}

\* the suspicious keywords that occur in a token of the vocabulary
KeywordsIn(tok) ==
    CASE tok = "login" -> {"login"}
      [] tok = "accounts" -> {"account"}
      [] OTHER -> {}

\* the known brands that occur in a token of the vocabulary
BrandsIn(tok) ==
    CASE tok = "google" -> {"google"}
      [] OTHER -> {}

\* FeatureExtractor.extract(url): 'https://' is prepended when no scheme is given
FeatureExtractor_extract(url) ==
    LET p == ParseOrEmpty(url, "https")
        h == p.hostname
        toks == UrlTokens(url)
    IN  [ url_length |-> UrlLen(url) + (IF HasHttpPrefix(url) THEN 0 ELSE SchemeLen("https")),
          hostname_length |-> HostLen(h),
          path_length |-> p.path_len,
          has_https |-> IF p.scheme = "https" THEN 1 ELSE 0,
          suspicious_tld |-> IF EndsWithTld(h, RULE_SUSPICIOUS_TLDS) THEN 1 ELSE 0,
          is_ip_address |-> IF MatchesIpPattern(h) THEN 1 ELSE 0,
          dot_count |-> DotCount(h),
          suspicious_keyword_count |-> Cardinality(UNION {KeywordsIn(t) : t \in toks}),
          brand_mention_count |-> Cardinality(UNION {BrandsIn(t) : t \in toks}),
          subdomain_count |-> IF DotCount(h) >= 2 THEN DotCount(h) - 1 ELSE 0,
          path_depth |-> p.path_depth ]

\* ------------------------------------------------------------ rules/rule_engine.py

\* index (1..7) of the brand patterns of rule 4 that match in a token
PatternsIn(tok) ==
    CASE tok = "paypa1" -> {1}
      [] tok = "google" -> {3}
      [] OTHER -> {}

\* the patterns that match somewhere in lower_url
BrandMatches(url) == UNION {PatternsIn(t) : t \in UrlTokens(url)}

Ev(label, status) == [label |-> label, status |-> status]

\* state of one evaluation before the first rule
RuleStart == [verdict |-> "SAFE", riskLevel |-> "Low", evidence |-> <<>>, tips |-> <<>>]

\* RULE 1: HTTPS check
Rule1(st, url, f) ==
    IF f.has_https = 1
    THEN [st EXCEPT !.evidence = Append(@, Ev("Protocol Security", "safe"))]
    ELSE [st EXCEPT !.evidence = Append(@, Ev("Protocol Security", "warning")),
                    !.verdict = "SUSPICIOUS", !.riskLevel = "Medium"]

\* RULE 2: suspicious TLD
Rule2(st, url, f) ==
    IF f.suspicious_tld = 1
    THEN [st EXCEPT !.evidence = Append(@, Ev("Domain Extension", "danger")),
                    !.verdict = "PHISHING", !.riskLevel = "High"]
    ELSE st

\* RULE 3: IP address usage
Rule3(st, url, f) ==
    IF f.is_ip_address = 1
    THEN [st EXCEPT !.evidence = Append(@, Ev("IP Address Usage", "danger")),
                    !.verdict = "PHISHING", !.riskLevel = "High",
                    !.tips = Append(@, "ip")]
    ELSE st

\* RULE 4: brand imitation; the loop breaks at the first pattern that matches
Rule4(st, url, f) ==
    IF BrandMatches(url) # {}
    THEN [st EXCEPT !.evidence = Append(@, Ev("Brand Imitation", "danger")),
                    !.verdict = "PHISHING", !.riskLevel = "High",
                    !.tips = Append(@, "brand")]
    ELSE st

\* RULE 5: URL length
\* (variant: the verdict is set to SUSPICIOUS whatever it was)
Rule5Unguarded(st, url, f) ==
    IF f.url_length > 75
    THEN [st EXCEPT !.evidence = Append(@, Ev("URL Structure", "warning")),
                    !.verdict = "SUSPICIOUS", !.riskLevel = "Medium"]
    ELSE [st EXCEPT !.evidence = Append(@, Ev("URL Structure", "safe"))]
Rule5(st, url, f) ==
    IF f.url_length > 75
    THEN [st EXCEPT !.evidence = Append(@, Ev("URL Structure", "warning")),
                    !.verdict = IF @ = "SAFE" THEN "SUSPICIOUS" ELSE @,
                    !.riskLevel = IF st.verdict = "SAFE" THEN "Medium" ELSE @]
    ELSE [st EXCEPT !.evidence = Append(@, Ev("URL Structure", "safe"))]

\* RULE 6: suspicious keywords
Rule6(st, url, f) ==
    IF f.suspicious_keyword_count > 0
    THEN [st EXCEPT !.evidence = Append(@, Ev("Content Indicators", "warning")),
                    !.verdict = IF @ = "SAFE" THEN "SUSPICIOUS" ELSE @,
                    !.riskLevel = IF st.verdict = "SAFE" THEN "Medium" ELSE @]
    ELSE [st EXCEPT !.evidence = Append(@, Ev("Content Indicators", "safe"))]

\* the dictionary returned after the sixth rule: explanation and action
\* steps are the texts chosen by the verdict
RuleResult(st) ==
    [ verdict |-> st.verdict,
      riskLevel |-> st.riskLevel,
      explanation |-> st.verdict,
      evidence |-> st.evidence,
      identificationTips |-> IF st.tips = <<>> THEN <<"default">> ELSE st.tips,
      actionSteps |-> st.verdict ]

\* RuleEngine.analyze(url, features)
RuleEngine_analyze(url, f) ==
    RuleResult(Rule6(Rule5(Rule4(Rule3(Rule2(Rule1(RuleStart, url, f),
                               url, f), url, f), url, f), url, f), url, f))

\* the dictionary analyze_url substitutes when the rule path raises: it has
\* no "verdict" and no "explanation" key
RulePlaceholder ==
    [ verdict |-> None,
      riskLevel |-> None,
      explanation |-> None,
      evidence |-> <<>>,
      identificationTips |-> <<"ML analysis completed successfully">>,
      actionSteps |-> "Review ML analysis results" ]

\* ------------------------------------------------------------ app.py: module state

TRUSTED_DOMAINS ==
    { <<"wikipedia", "org">>, <<"google", "com">>, <<"github", "com">>,
      <<"microsoft", "com">>, <<"apple", "com">>, <<"amazon", "com">>,
      <<"openai", "com">> }

\* safe_domains of the fallback branch
FALLBACK_SAFE_DOMAINS ==
    { <<"google", "com">>, <<"www", "google", "com">>, <<"accounts", "google", "com">> }

\* the kinds of object the start-up load leaves in ml_model: nothing, a
\* classifier with predict_proba, a classifier with predict only
ModelKinds == {None, "predict_proba", "predict"}

\* ------------------------------------------------------------ app.py: State 0, ML decision

Failed == [ml_available |-> FALSE, ml_verdict |-> None, ml_confidence |-> 0]

\* if ml_confidence >= 0.7 ... elif ml_confidence >= 0.4 ... else
\* (variant: strict comparisons, the boundary values fall in the lower class)
ThresholdVerdictStrict(p) ==
    IF p > PHISHING_THRESHOLD THEN "PHISHING"
    ELSE IF p > SUSPICIOUS_THRESHOLD THEN "SUSPICIOUS"
    ELSE "SAFE"
ThresholdVerdict(p) ==
    IF p >= PHISHING_THRESHOLD THEN "PHISHING"
    ELSE IF p >= SUSPICIOUS_THRESHOLD THEN "SUSPICIOUS"
    ELSE "SAFE"

\* the predict_proba branch: clf.proba is predict_proba([ml_features])[0]
ProbaDecision(clf) ==
    IF clf.raises \/ clf.proba = <<>> THEN Failed
    ELSE LET phishing_prob == IF Len(clf.proba) >= 2 THEN clf.proba[2] ELSE clf.proba[1]
             ml_confidence == Clamp(phishing_prob).val
         IN  [ml_available |-> TRUE,
              ml_verdict |-> ThresholdVerdict(ml_confidence),
              ml_confidence |-> ml_confidence]

\* the predict branch: clf.prediction is predict([ml_features])[0]
\* (variant: a prediction of 1 is given confidence 0.9)
PredictDecisionHighConfidence(clf) ==
    IF clf.raises THEN Failed
    ELSE IF clf.prediction = 1
         THEN [ml_available |-> TRUE, ml_verdict |-> "PHISHING", ml_confidence |-> 90000]
         ELSE [ml_available |-> TRUE, ml_verdict |-> "SAFE", ml_confidence |-> 20000]
PredictDecision(clf) ==
    IF clf.raises THEN Failed
    ELSE IF clf.prediction = 1
         THEN [ml_available |-> TRUE, ml_verdict |-> "PHISHING", ml_confidence |-> 80000]
         ELSE [ml_available |-> TRUE, ml_verdict |-> "SAFE", ml_confidence |-> 20000]

\* the block "if ml_model is not None: try: ... except Exception"
MLDecision(model, ml_features, clf) ==
    IF model = None THEN Failed
    ELSE IF Len(ml_features) # 7 THEN Failed
    ELSE IF model = "predict_proba" THEN ProbaDecision(clf)
    ELSE IF model = "predict" THEN PredictDecision(clf)
    ELSE Failed

\* ------------------------------------------------------------ app.py: State 1, hardening

\* domain.endswith("." + trusted)
EndsWithDotted(ls, t) ==
    /\ Len(ls) > Len(t)
    /\ SubSeq(ls, Len(ls) - Len(t) + 1, Len(ls)) = t

\* any(domain == trusted or domain.endswith(f".{trusted}") ...)
\* (variant: subdomains are not matched)
IsTrustedExactOnly(domain) == domain.labels \in TRUSTED_DOMAINS
IsTrusted(domain) ==
    \E t \in TRUSTED_DOMAINS : domain.labels = t \/ EndsWithDotted(domain.labels, t)

\* ipaddress.ip_address(domain) succeeds (IPv4, as dotted quad)
ParsesAsIp(domain) ==
    /\ Len(domain.octets) = 4
    /\ \A i \in 1..4 : domain.octets[i] <= 255

\* ip_obj.is_private, for a host that parses
\* (variant: only 10.0.0.0/8 counts as private)
IsPrivateTenOnly(domain) == domain.octets[1] = 10
IsPrivate(domain) ==
    LET a == domain.octets[1]
        b == domain.octets[2]
        c == domain.octets[3]
        d == domain.octets[4]
    IN  \/ a = 0
        \/ a = 10
        \/ a = 127
        \/ a = 169 /\ b = 254
        \/ a = 172 /\ b \in 16..31
        \/ a = 192 /\ b = 0 /\ c = 0 /\ (d \in 0..7 \/ d \in 170..171)
        \/ a = 192 /\ b = 0 /\ c = 2
        \/ a = 192 /\ b = 168
        \/ a = 198 /\ b \in 18..19
        \/ a = 198 /\ b = 51 /\ c = 100
        \/ a = 203 /\ b = 0 /\ c = 113
        \/ a >= 240

\* the decision context entering the hardening layers
Context(d) ==
    [ ml_verdict |-> d.ml_verdict,
      ml_confidence |-> d.ml_confidence,
      trusted_domain_override |-> FALSE,
      confidence_gating_applied |-> FALSE,
      private_ip_detected |-> FALSE ]

\* LAYER 1: trusted domain override
\* (variant: the override also resets the confidence)
Layer1ZeroesConfidence(ctx, domain) ==
    IF IsTrusted(domain) /\ ctx.ml_verdict = "PHISHING"
    THEN [ctx EXCEPT !.trusted_domain_override = TRUE, !.ml_verdict = "SAFE",
                     !.ml_confidence = 0]
    ELSE ctx
Layer1(ctx, domain) ==
    IF IsTrusted(domain) /\ ctx.ml_verdict = "PHISHING"
    THEN [ctx EXCEPT !.trusted_domain_override = TRUE, !.ml_verdict = "SAFE"]
    ELSE ctx

\* LAYER 2: confidence gating
\* (variant: no gating)
Layer2Skipped(ctx, domain) == ctx
Layer2(ctx, domain) ==
    IF ctx.ml_verdict = "PHISHING" /\ ctx.ml_confidence < PHISHING_HARD_THRESHOLD
    THEN [ctx EXCEPT !.confidence_gating_applied = TRUE, !.ml_verdict = "SUSPICIOUS"]
    ELSE ctx

\* LAYER 3: private / internal IP handling
Layer3(ctx, domain) ==
    IF domain # EmptyHost /\ ParsesAsIp(domain) /\ IsPrivate(domain)
    THEN [ctx EXCEPT !.private_ip_detected = TRUE,
                     !.ml_verdict = IF @ = "PHISHING" THEN "SUSPICIOUS" ELSE @]
    ELSE ctx

\* the three layers, in the order of the code
Hardening(ctx, domain) == Layer3(Layer2(Layer1(ctx, domain), domain), domain)

\* ------------------------------------------------------------ app.py: risk level and explanation

\* if ml_verdict == "PHISHING": "High" elif "SUSPICIOUS": "Medium" else "Low"
RiskOf(verdict) ==
    IF verdict = "PHISHING" THEN "High"
    ELSE IF verdict = "SUSPICIOUS" THEN "Medium"
    ELSE "Low"

\* an explanation text: the template chosen, the rule engine's text it embeds
\* (fallback only) and the confidence it prints
Explanation(mode, rule, pct) == [mode |-> mode, rule |-> rule, pct |-> pct]

\* the else branch of "if not ml_available": risk level, then the if/elif
\* chain that picks the explanation and adjusts the risk level
\* (variant: the gating branch is tested before the private-IP branch)
MLRiskAndExplanationGatingFirst(ctx) ==
    LET pct == Pct1(ctx.ml_confidence)
        risk == RiskOf(ctx.ml_verdict)
    IN  IF ctx.trusted_domain_override
        THEN [risk_level |-> "Low", explanation |-> Explanation("trusted_override", None, pct)]
        ELSE IF ctx.confidence_gating_applied
        THEN [risk_level |-> risk, explanation |-> Explanation("confidence_gating", None, pct)]
        ELSE IF ctx.private_ip_detected
        THEN [risk_level |-> "Medium", explanation |-> Explanation("private_ip", None, pct)]
        ELSE [risk_level |-> risk, explanation |-> Explanation("ml", None, pct)]
MLRiskAndExplanation(ctx) ==
    LET pct == Pct1(ctx.ml_confidence)
        risk == RiskOf(ctx.ml_verdict)
    IN  IF ctx.trusted_domain_override
        THEN [risk_level |-> "Low", explanation |-> Explanation("trusted_override", None, pct)]
        ELSE IF ctx.private_ip_detected
        THEN [risk_level |-> "Medium", explanation |-> Explanation("private_ip", None, pct)]
        ELSE IF ctx.confidence_gating_applied
        THEN [risk_level |-> risk, explanation |-> Explanation("confidence_gating", None, pct)]
        ELSE IF ctx.ml_verdict = "PHISHING"
        THEN [risk_level |-> risk, explanation |-> Explanation("ml_phishing", None, pct)]
        ELSE IF ctx.ml_verdict = "SUSPICIOUS"
        THEN [risk_level |-> risk, explanation |-> Explanation("ml_suspicious", None, pct)]
        ELSE [risk_level |-> risk, explanation |-> Explanation("ml_safe", None, pct)]

\* ------------------------------------------------------------ app.py: fallback

\* rule_result.get("verdict", "SUSPICIOUS")
\* (variant: the default is SAFE)
BaseVerdictDefaultSafe(rule_result) ==
    IF rule_result.verdict = None THEN "SAFE" ELSE rule_result.verdict
BaseVerdict(rule_result) ==
    IF rule_result.verdict = None THEN "SUSPICIOUS" ELSE rule_result.verdict

\* the branch "if not ml_available"
\* (variant: the explainer verdict is passed through uncapped)
FallbackUncapped(domain, rule_result) ==
    LET v == BaseVerdict(rule_result)
    IN  [ ml_verdict |-> v, risk_level |-> RiskOf(v), ml_confidence |-> 0,
          explanation |-> Explanation("fallback_rule", "default", 0) ]
Fallback(domain, rule_result) ==
    IF domain.labels \in FALLBACK_SAFE_DOMAINS
    THEN [ ml_verdict |-> "SAFE", risk_level |-> "Low", ml_confidence |-> 0,
           explanation |-> Explanation("fallback_trusted", None, 0) ]
    ELSE LET base_verdict == BaseVerdict(rule_result)
             ml_verdict == IF base_verdict = "PHISHING" THEN "SUSPICIOUS"
                           ELSE IF base_verdict \in {"SAFE", "SUSPICIOUS"} THEN base_verdict
                           ELSE "SUSPICIOUS"
         IN  [ ml_verdict |-> ml_verdict,
               risk_level |-> IF ml_verdict = "SAFE" THEN "Low" ELSE "Medium",
               ml_confidence |-> 0,
               explanation |-> Explanation("fallback_rule",
                                  IF rule_result.explanation = None THEN "default"
                                  ELSE rule_result.explanation, 0) ]

\* ------------------------------------------------------------ app.py: analyze_url

\* the locals of analyze_url when it builds the response
Pipeline(model, req) ==
    LET url == Strip(req.url)
        ml_features == extract_features(url)
        rule_result == IF req.rule_fault THEN RulePlaceholder
                       ELSE RuleEngine_analyze(url, FeatureExtractor_extract(url))
        decision == MLDecision(model, ml_features, req.clf)
        domain == extract_domain(url)
        ctx == IF decision.ml_available THEN Hardening(Context(decision), domain)
               ELSE Context(decision)
        out == IF decision.ml_available
               THEN LET re == MLRiskAndExplanation(ctx)
                    IN  [ ml_verdict |-> ctx.ml_verdict, risk_level |-> re.risk_level,
                          ml_confidence |-> ctx.ml_confidence,
                          explanation |-> re.explanation ]
               ELSE Fallback(domain, rule_result)
    IN  [ exit |-> "response",
          ml_features |-> ml_features,
          rule_result |-> rule_result,
          domain |-> domain,
          ml_available |-> decision.ml_available,
          raw_verdict |-> decision.ml_verdict,
          raw_confidence |-> decision.ml_confidence,
          trusted_domain_override |-> ctx.trusted_domain_override,
          confidence_gating_applied |-> ctx.confidence_gating_applied,
          private_ip_detected |-> ctx.private_ip_detected,
          ml_verdict |-> out.ml_verdict,
          risk_level |-> out.risk_level,
          ml_confidence |-> out.ml_confidence,
          explanation |-> out.explanation ]

\* analyze_url up to its return statement: the exit it takes and, on the
\* success path, its local variables.  data["url"].strip() raises for a url
\* that is not a string, which the outer handler catches.
Handler(model, req) ==
    IF req.url.type = "absent" THEN [exit |-> "url_required"]
    ELSE IF req.url.type # "str" THEN [exit |-> "internal_error"]
    ELSE IF StrippedLen(req.url) = 0 THEN [exit |-> "url_empty"]
    ELSE IF ~validate_url(Strip(req.url)) THEN [exit |-> "validation_failed"]
    ELSE IF \/ extract_features_call(Strip(req.url)).raises
            \/ Len(extract_features_call(Strip(req.url)).value) = 0
         THEN [exit |-> "extraction_failed"]
    ELSE Pipeline(model, req)

\* the body and status of the early returns and of the outer exception
\* handler; a key the body does not have is None
\* (variant: the outer exception handler answers with the error alone)
ErrorResponseBare(exit) ==
    LET brief == exit \in {"url_required", "url_empty", "internal_error"}
    IN  [ status |-> IF exit \in {"extraction_failed", "internal_error"} THEN 500 ELSE 400,
          error |-> exit \notin {"validation_failed"},
          verdict |-> IF exit = "internal_error" THEN None ELSE "SUSPICIOUS",
          riskLevel |-> IF exit = "internal_error" THEN None ELSE "Medium",
          confidence |-> IF brief THEN None ELSE 0,
          mlAvailable |-> None,
          explanation |-> IF brief THEN None ELSE exit,
          evidence |-> IF brief THEN None ELSE <<>>,
          identificationTips |-> IF brief THEN None ELSE <<exit>>,
          actionSteps |-> IF brief THEN None ELSE <<exit>> ]
ErrorResponse(exit) ==
    LET brief == exit \in {"url_required", "url_empty"}
    IN  [ status |-> IF exit \in {"extraction_failed", "internal_error"} THEN 500 ELSE 400,
          error |-> exit \notin {"validation_failed"},
          verdict |-> "SUSPICIOUS",
          riskLevel |-> "Medium",
          confidence |-> IF brief THEN None ELSE 0,
          mlAvailable |-> None,
          explanation |-> IF brief THEN None ELSE exit,
          evidence |-> IF brief THEN None ELSE <<>>,
          identificationTips |-> IF brief THEN None ELSE <<exit>>,
          actionSteps |-> IF brief THEN None ELSE <<exit>> ]

\* the response dictionary and status of the success path
\* (variant: an explainer verdict of PHISHING is passed on to the caller)
SuccessResponseExplainerVerdict(l) ==
    [ status |-> 200,
      error |-> FALSE,
      verdict |-> IF l.rule_result.verdict = "PHISHING" THEN "PHISHING" ELSE l.ml_verdict,
      riskLevel |-> l.risk_level,
      confidence |-> Round2(l.ml_confidence),
      mlAvailable |-> l.ml_available,
      explanation |-> l.explanation,
      evidence |-> l.rule_result.evidence,
      identificationTips |-> l.rule_result.identificationTips,
      actionSteps |-> l.rule_result.actionSteps ]
SuccessResponse(l) ==
    [ status |-> 200,
      error |-> FALSE,
      verdict |-> l.ml_verdict,
      riskLevel |-> l.risk_level,
      confidence |-> Round2(l.ml_confidence),
      mlAvailable |-> l.ml_available,
      explanation |-> l.explanation,
      evidence |-> l.rule_result.evidence,
      identificationTips |-> l.rule_result.identificationTips,
      actionSteps |-> l.rule_result.actionSteps ]

\* what analyze_url returns
BuildResponse(l) ==
    IF l.exit = "response" THEN SuccessResponse(l) ELSE ErrorResponse(l.exit)

\* the module-level classifier reference after a request has run: analyze_url
\* reads ml_model and assigns to no module-level name
\* (variant: the classifier is unloaded when its call fails)
SharedAfterUnloadOnFailure(model, req) == IF req.clf.raises THEN None ELSE model
SharedAfter(model, req) == model

\* ------------------------------------------------------------ inputs

\* classifier outputs: a grid over [-0.2, 1.2], the values around the
\* thresholds, and the non-finite floats
FiniteOutputs ==
    { (k * ONE) \div ProbGrid : k \in -2 .. ProbGrid + 2 }
        \cup { 39999, 40000, 69999, 70000, 84999, 85000, 85001, 12344, 95000, 99996 }

Outputs == { Fin(v) : v \in FiniteOutputs } \cup { NaN, PosInf, NegInf }

NoCall == [raises |-> FALSE, proba |-> <<>>, prediction |-> 0]
Raises == [raises |-> TRUE, proba |-> <<>>, prediction |-> 0]

\* what predict_proba([ml_features])[0] can be: a row with one entry, with
\* two entries [safe_prob, phishing_prob], or an empty row
ProbaRows ==
    { <<>> } \cup { <<p>> : p \in Outputs }
        \cup { <<q, p>> : q \in {Fin(0), Fin(ONE)}, p \in Outputs }

\* what the classifier call of one request can do, for each kind of ml_model
ClfOutcomes(model) ==
    IF model = None THEN {NoCall}
    ELSE IF model = "predict_proba"
    THEN {Raises} \cup { [raises |-> FALSE, proba |-> r, prediction |-> 0] : r \in ProbaRows }
    ELSE {Raises} \cup { [raises |-> FALSE, proba |-> <<>>, prediction |-> k] : k \in 0..2 }

\* ------------------------------------------------------------ state machine

Init ==
    /\ ml_model \in ModelKinds
    /\ pc = "idle"
    /\ request = None
    /\ locals = None
    /\ response = None

\* a request arrives: its URL, what the classifier will do when called, and
\* whether the rule path raises
Receive ==
    /\ pc = "idle"
    /\ \E url \in Values, clf \in ClfOutcomes(ml_model), fault \in BOOLEAN :
           request' = [url |-> url, clf |-> clf, rule_fault |-> fault]
    /\ pc' = "run"
    /\ UNCHANGED <<ml_model, locals, response>>

\* analyze_url runs to its return statement
Analyze ==
    /\ pc = "run"
    /\ locals' = Handler(ml_model, request)
    /\ response' = BuildResponse(locals')
    /\ ml_model' = SharedAfter(ml_model, request)
    /\ pc' = "done"
    /\ UNCHANGED request

\* the response is sent; the worker waits for the next request
Return ==
    /\ pc = "done"
    /\ pc' = "idle"
    /\ request' = None
    /\ locals' = None
    /\ response' = None
    /\ UNCHANGED ml_model

Next == Receive \/ Analyze \/ Return

Spec == Init /\ [][Next]_vars

\* ------------------------------------------------------------ two requests in flight

Workers == {1, 2}

\* the values and classifier outcomes the two workers draw from
PairValues ==
    { Url("http", ExampleCom, <<"login">>),
      Url("https", Name(<<"en", "wikipedia", "org">>), <<>>),
      Url("", Ip(<<192, 168, 1, 1>>), <<"admin">>),
      NoString("null") }

PairOutcomes(model) ==
    { o \in ClfOutcomes(model) :
          \/ o \in {NoCall, Raises}
          \/ o.proba \in { <<Fin(0), Fin(95000)>>, <<Fin(0), Fin(80000)>>, <<NaN>> }
          \/ o.proba = <<>> /\ model = "predict" }

\* pc, request, locals and response hold one entry for each worker; ml_model
\* is the one module-level reference both read
InitPair ==
    /\ ml_model \in ModelKinds
    /\ pc = [w \in Workers |-> "idle"]
    /\ request = [w \in Workers |-> None]
    /\ locals = [w \in Workers |-> None]
    /\ response = [w \in Workers |-> None]

ReceiveW(w) ==
    /\ pc[w] = "idle"
    /\ \E url \in PairValues, clf \in PairOutcomes(ml_model), fault \in BOOLEAN :
           request' = [request EXCEPT ![w] = [url |-> url, clf |-> clf, rule_fault |-> fault]]
    /\ pc' = [pc EXCEPT ![w] = "run"]
    /\ UNCHANGED <<ml_model, locals, response>>

AnalyzeW(w) ==
    /\ pc[w] = "run"
    /\ locals' = [locals EXCEPT ![w] = Handler(ml_model, request[w])]
    /\ response' = [response EXCEPT ![w] = BuildResponse(locals'[w])]
    /\ ml_model' = SharedAfter(ml_model, request[w])
    /\ pc' = [pc EXCEPT ![w] = "done"]
    /\ UNCHANGED request

ReturnW(w) ==
    /\ pc[w] = "done"
    /\ pc' = [pc EXCEPT ![w] = "idle"]
    /\ request' = [request EXCEPT ![w] = None]
    /\ locals' = [locals EXCEPT ![w] = None]
    /\ response' = [response EXCEPT ![w] = None]
    /\ UNCHANGED ml_model

NextPair == \E w \in Workers : ReceiveW(w) \/ AnalyzeW(w) \/ ReturnW(w)

SpecPair == InitPair /\ [][NextPair]_vars

\* ------------------------------------------------------------ RuleEngine.analyze, rule by rule

\* feature dictionaries handed to RuleEngine.analyze: every combination of
\* the values its rules distinguish
FeatureMaps ==
    [ has_https : {0, 1}, suspicious_tld : {0, 1}, is_ip_address : {0, 1},
      url_length : {20, 75, 76}, suspicious_keyword_count : {0, 2} ]

\* URLs handed to RuleEngine.analyze: no brand pattern matches, one
\* matches, two match
RuleUrls ==
    { Url("https", ExampleCom, <<>>),
      Url("http", Name(<<"www", "paypa1", "com">>), <<"login">>),
      Url("", Name(<<"paypa1", "google", "com">>), <<>>) }

\* one call of RuleEngine.analyze: request holds its arguments, locals the
\* verdict, risk level and lists built so far
InitRules ==
    /\ ml_model = None
    /\ pc = "rule1"
    /\ request \in [url : RuleUrls, features : FeatureMaps]
    /\ locals = RuleStart
    /\ response = None

RuleStep1 ==
    /\ pc = "rule1"
    /\ locals' = Rule1(locals, request.url, request.features)
    /\ pc' = "rule2"
    /\ UNCHANGED <<ml_model, request, response>>

RuleStep2 ==
    /\ pc = "rule2"
    /\ locals' = Rule2(locals, request.url, request.features)
    /\ pc' = "rule3"
    /\ UNCHANGED <<ml_model, request, response>>

RuleStep3 ==
    /\ pc = "rule3"
    /\ locals' = Rule3(locals, request.url, request.features)
    /\ pc' = "rule4"
    /\ UNCHANGED <<ml_model, request, response>>

RuleStep4 ==
    /\ pc = "rule4"
    /\ locals' = Rule4(locals, request.url, request.features)
    /\ pc' = "rule5"
    /\ UNCHANGED <<ml_model, request, response>>

RuleStep5 ==
    /\ pc = "rule5"
    /\ locals' = Rule5(locals, request.url, request.features)
    /\ pc' = "rule6"
    /\ UNCHANGED <<ml_model, request, response>>

RuleStep6 ==
    /\ pc = "rule6"
    /\ locals' = Rule6(locals, request.url, request.features)
    /\ pc' = "result"
    /\ UNCHANGED <<ml_model, request, response>>

\* explanation, tips, action steps and the return statement
RuleReturn ==
    /\ pc = "result"
    /\ response' = RuleResult(locals)
    /\ pc' = "returned"
    /\ UNCHANGED <<ml_model, request, locals>>

NextRules ==
    RuleStep1 \/ RuleStep2 \/ RuleStep3 \/ RuleStep4 \/ RuleStep5 \/ RuleStep6
        \/ RuleReturn

SpecRules == InitRules /\ [][NextRules]_vars

\* ------------------------------------------------------------ validate_url and extract_features, called alone

\* one call of validate_url or of extract_features on a value: request
\* holds the argument, response what the call returns
InitCalls ==
    /\ ml_model = None
    /\ pc = "call"
    /\ request \in [url : Values]
    /\ locals = None
    /\ response = None

CallValidate ==
    /\ pc = "call"
    /\ response' = validate_url(request.url)
    /\ pc' = "validate_url"
    /\ UNCHANGED <<ml_model, request, locals>>

CallExtract ==
    /\ pc = "call"
    /\ response' = extract_features_call(request.url)
    /\ pc' = "extract_features"
    /\ UNCHANGED <<ml_model, request, locals>>

NextCalls == CallValidate \/ CallExtract

SpecCalls == InitCalls /\ [][NextCalls]_vars

\* ------------------------------------------------------------ vocabulary of the properties

\* a request was answered with a classification result
Done == pc = "done" /\ locals.exit = "response"

\* the request took the classifier path
OnClassifierPath == Done /\ response.mlAvailable

\* the entry of predict_proba's row that is the phishing probability
RawProb ==
    IF Len(request.clf.proba) >= 2 THEN request.clf.proba[2] ELSE request.clf.proba[1]

\* predict_proba was called and returned a row with a value
ProbaReturned ==
    /\ Done
    /\ ml_model = "predict_proba"
    /\ ~request.clf.raises
    /\ request.clf.proba # <<>>

\* the hosts of the vocabulary that are an allow-listed domain or a subdomain
\* of one, listed one by one
AllowListedHosts ==
    { Name(<<"wikipedia", "org">>), Name(<<"en", "wikipedia", "org">>),
      Name(<<"google", "com">>), Name(<<"www", "google", "com">>),
      Name(<<"accounts", "google", "com">>), Name(<<"mail", "google", "com">>) }

\* a dotted quad in 10.0.0.0/8, 172.16.0.0/12 or 192.168.0.0/16
Rfc1918(h) ==
    /\ Len(h.octets) = 4
    /\ \A i \in 1..4 : h.octets[i] \in 0..255
    /\ \/ h.octets[1] = 10
       \/ h.octets[1] = 172 /\ h.octets[2] >= 16 /\ h.octets[2] <= 31
       \/ h.octets[1] = 192 /\ h.octets[2] = 168

\* the threshold verdict was PHISHING with a probability under the hard threshold
GatedCase ==
    /\ OnClassifierPath
    /\ locals.raw_verdict = "PHISHING"
    /\ locals.raw_confidence >= 70000
    /\ locals.raw_confidence < 85000

\* ------------------------------------------------------------ C1

\* C1 as stated: every PHISHING threshold verdict with p < 0.85 ends as
\* SUSPICIOUS, for every resolved domain, allow-listed domains included.
C1_GatedToSuspiciousEveryDomain ==
    GatedCase => response.verdict = "SUSPICIOUS"

\* C1 amended: a PHISHING threshold verdict with p < 0.85 ends as SUSPICIOUS
\* for every resolved domain that is not allow-listed (nor a subdomain of an
\* allow-listed domain); for an allow-listed domain the trusted-domain
\* override, which runs first, makes it SAFE.
C1_GatedToSuspiciousUnlessTrusted ==
    GatedCase =>
        /\ request.url.host \notin AllowListedHosts
              => response.verdict = "SUSPICIOUS" /\ locals.confidence_gating_applied
        /\ request.url.host \in AllowListedHosts => response.verdict = "SAFE"

C1_Witness ==
    /\ GatedCase
    /\ request.url.host = Name(<<"evilwikipedia", "org">>)
    /\ locals.raw_confidence = 84999
    /\ response.verdict = "SUSPICIOUS"

\* ------------------------------------------------------------ C2

\* the classifier was called and the probability could not be obtained: the
\* call raised, the vector has not 7 entries, or the value is not finite
ProbabilityFailure ==
    /\ Done
    /\ ml_model # None
    /\ \/ request.clf.raises
       \/ Len(locals.ml_features) # 7
       \/ ProbaReturned /\ RawProb.kind # "fin"

\* C2: any failure to obtain the phishing probability (exception, wrong
\* arity, non-finite output) puts the request in fallback mode: mlAvailable
\* false, confidence 0, verdict not PHISHING, status 200.
C2_FailureGivesFallback ==
    ProbabilityFailure =>
        /\ response.mlAvailable = FALSE
        /\ response.confidence = 0
        /\ response.verdict # "PHISHING"
        /\ response.status = 200

\* ------------------------------------------------------------ C3

\* C3 as stated: on the classifier path the reported confidence is the raw
\* classifier probability times 100, rounded to 2 decimals.
C3_ConfidenceIsRawProbability ==
    ProbaReturned /\ response.mlAvailable /\ RawProb.kind = "fin"
        => response.confidence = Round2(RawProb.val)

\* C3 amended: on the classifier path the reported confidence is the
\* probability State 0 settled on, times 100 rounded to 2 decimals: the
\* classifier output clamped into [0,1] for predict_proba, the fixed 0.8 or
\* 0.2 for a predict-only classifier; no hardening layer alters it.
C3_ConfidenceIsClampedProbability ==
    OnClassifierPath =>
        /\ response.confidence = Round2(locals.raw_confidence)
        /\ ProbaReturned /\ RawProb.kind = "fin" =>
              locals.raw_confidence =
                  IF RawProb.val < 0 THEN 0
                  ELSE IF RawProb.val > 100000 THEN 100000 ELSE RawProb.val
        /\ ml_model = "predict" =>
              locals.raw_confidence = IF request.clf.prediction = 1 THEN 80000 ELSE 20000

C3_Witness ==
    /\ OnClassifierPath
    /\ locals.trusted_domain_override
    /\ ProbaReturned
    /\ RawProb = Fin(120000)
    /\ response.confidence = 10000

\* ------------------------------------------------------------ C4

\* C4: an allow-listed domain or a subdomain of one whose threshold verdict
\* is PHISHING ends as SAFE / Low with the confidence of the classifier.
C4_TrustedOverride ==
    /\ OnClassifierPath
    /\ request.url.host \in AllowListedHosts
    /\ locals.raw_verdict = "PHISHING"
    => /\ response.verdict = "SAFE"
       /\ response.riskLevel = "Low"
       /\ response.confidence = Round2(locals.raw_confidence)
       /\ locals.raw_confidence >= 70000

C4_Witness ==
    /\ OnClassifierPath
    /\ request.url.host = Name(<<"en", "wikipedia", "org">>)
    /\ ProbaReturned
    /\ RawProb = Fin(95000)
    /\ response.verdict = "SAFE"
    /\ response.riskLevel = "Low"
    /\ response.confidence = 9500

\* ------------------------------------------------------------ C5

\* C5: a resolved host that is a private-range IP literal never ends as
\* PHISHING, with or without a classifier; with a PHISHING threshold verdict
\* it ends as SUSPICIOUS / Medium.
C5_PrivateIpNeverPhishing ==
    Done /\ Rfc1918(request.url.host) =>
        /\ response.verdict # "PHISHING"
        /\ response.mlAvailable /\ locals.raw_verdict = "PHISHING"
              => response.verdict = "SUSPICIOUS" /\ response.riskLevel = "Medium"

C5_Witness ==
    /\ OnClassifierPath
    /\ request.url.host = Ip(<<192, 168, 1, 1>>)
    /\ locals.raw_confidence >= 85000
    /\ ~locals.confidence_gating_applied
    /\ response.verdict = "SUSPICIOUS"
    /\ response.riskLevel = "Medium"

\* ------------------------------------------------------------ C6

\* fallback mode: no classifier is loaded, or its call failed
FallbackMode ==
    /\ Done
    /\ \/ ml_model = None
       \/ request.clf.raises
       \/ ml_model = "predict_proba" /\ request.clf.proba = <<>>

\* the hosts of the vocabulary in the hardcoded fallback trusted set
FallbackSafeHosts ==
    { Name(<<"google", "com">>), Name(<<"www", "google", "com">>),
      Name(<<"accounts", "google", "com">>) }

\* C6: in fallback mode the verdict is never PHISHING, riskLevel never High,
\* confidence 0 and mlAvailable false; a domain of the fallback trusted set
\* gives SAFE/Low, otherwise an explainer verdict of PHISHING is emitted as
\* SUSPICIOUS/Medium and SAFE or SUSPICIOUS is passed through.
C6_FallbackCapped ==
    FallbackMode =>
        /\ response.mlAvailable = FALSE
        /\ response.confidence = 0
        /\ response.verdict \in {"SAFE", "SUSPICIOUS"}
        /\ response.riskLevel \in {"Low", "Medium"}
        /\ request.url.host \in FallbackSafeHosts
              => response.verdict = "SAFE" /\ response.riskLevel = "Low"
        /\ request.url.host \notin FallbackSafeHosts =>
              /\ locals.rule_result.verdict = "PHISHING"
                    => response.verdict = "SUSPICIOUS" /\ response.riskLevel = "Medium"
              /\ locals.rule_result.verdict = "SUSPICIOUS"
                    => response.verdict = "SUSPICIOUS" /\ response.riskLevel = "Medium"
              /\ locals.rule_result.verdict = "SAFE"
                    => response.verdict = "SAFE" /\ response.riskLevel = "Low"

\* https://www.paypa1.com/login with no classifier: the explainer says
\* PHISHING and the response is SUSPICIOUS / Medium / 0
C6_Witness ==
    /\ FallbackMode
    /\ ml_model = None
    /\ request.url = Url("https", Name(<<"www", "paypa1", "com">>), <<"login">>)
    /\ locals.rule_result.verdict = "PHISHING"
    /\ response.verdict = "SUSPICIOUS"
    /\ response.riskLevel = "Medium"
    /\ response.confidence = 0

\* ------------------------------------------------------------ C7

\* the classifier's probability is at least 0.85 (false of NaN, as every
\* comparison with NaN is)
ProbabilityAtLeastFloor ==
    \/ /\ ml_model = "predict_proba"
       /\ ~request.clf.raises
       /\ request.clf.proba # <<>>
       /\ RawProb.kind # "nan"
       /\ ~FLt(RawProb, Fin(85000))
    \/ /\ ml_model = "predict"
       /\ locals.raw_confidence >= 85000

\* C7: every result whose final verdict is PHISHING comes from a classifier
\* that ran and whose probability is at least 0.85.
C7_PhishingOnlyAboveFloor ==
    Done /\ response.verdict = "PHISHING" =>
        response.mlAvailable /\ ProbabilityAtLeastFloor

\* ------------------------------------------------------------ C8

Severity(v) == IF v = "PHISHING" THEN 2 ELSE IF v = "SUSPICIOUS" THEN 1 ELSE 0

RiskRank(r) == IF r = "High" THEN 2 ELSE IF r = "Medium" THEN 1 ELSE 0

\* C9: on the classifier path the final verdict is never more severe than
\* the threshold verdict and the final riskLevel never higher than the level
\* of that verdict, for every domain.
C9_HardeningNeverEscalates ==
    OnClassifierPath =>
        /\ Severity(response.verdict) <= Severity(locals.raw_verdict)
        /\ RiskRank(response.riskLevel) <= Severity(locals.raw_verdict)

\* ------------------------------------------------------------ C10

\* C10: the classifier probability is clamped into [0,1] and mapped by the
\* thresholds 0.7 and 0.4, the boundary values falling in the higher class;
\* the reported confidence is within 0..100.
C10_ThresholdMapping ==
    /\ Done => response.confidence \in 0..10000
    /\ ProbaReturned =>
          /\ response.mlAvailable
          /\ locals.raw_confidence \in 0..100000
          /\ RawProb.kind = "fin" /\ RawProb.val \in 0..100000
                => locals.raw_confidence = RawProb.val
          /\ RawProb.kind = "fin" /\ RawProb.val < 0 => locals.raw_confidence = 0
          /\ RawProb.kind = "fin" /\ RawProb.val > 100000 => locals.raw_confidence = 100000
          /\ locals.raw_confidence >= 70000 => locals.raw_verdict = "PHISHING"
          /\ locals.raw_confidence >= 40000 /\ locals.raw_confidence < 70000
                => locals.raw_verdict = "SUSPICIOUS"
          /\ locals.raw_confidence < 40000 => locals.raw_verdict = "SAFE"

C10_Witness ==
    /\ ProbaReturned
    /\ RawProb = Fin(70000)
    /\ locals.raw_verdict = "PHISHING"
    /\ response.confidence = 7000

\* ------------------------------------------------------------ C11

\* the accepted strings of the vocabulary, by the domain they resolve to
AcceptedWithDomain ==
    [ d \in {extract_domain(Strip(u)) : u \in {v \in Values : validate_url(v)}} |->
        {u \in Values : validate_url(u) /\ extract_domain(Strip(u)) = d} ]

\* one accepted string for each domain
ReferenceUrl == [ d \in DOMAIN AcceptedWithDomain |-> CHOOSE u \in AcceptedWithDomain[d] : TRUE ]

\* the current request with another URL text
WithUrl(u) == [request EXCEPT !.url = u]

\* what the explainer says for a request (None when it fails)
ExplainerVerdict(req) == Pipeline(ml_model, req).rule_result.verdict

\* C11: with the classifier available, every request with the same domain
\* and the same classifier outcome gets the same verdict, riskLevel,
\* confidence and explanation, whatever the explainer says or whether it
\* fails.  Every request is compared with the requests for one reference
\* string of its domain, with a working and with a failing explainer; two
\* requests that agree with the same reference agree with each other.
C11_ExplainerVerdictIgnored ==
    OnClassifierPath =>
        \A fault \in BOOLEAN :
            LET req == [WithUrl(ReferenceUrl[locals.domain]) EXCEPT !.rule_fault = fault]
                other == BuildResponse(Handler(ml_model, req))
            IN  /\ other.status = 200
                /\ other.mlAvailable
                /\ other.verdict = response.verdict
                /\ other.riskLevel = response.riskLevel
                /\ other.confidence = response.confidence
                /\ other.explanation = response.explanation

\* the explainer says SUSPICIOUS, the classifier gives 0.95 and the result
\* is PHISHING, as for the same domain with an explainer that says SAFE
\* and with one that fails
C11_Witness ==
    /\ OnClassifierPath
    /\ locals.rule_result.verdict = "SUSPICIOUS"
    /\ locals.raw_confidence = 95000
    /\ response.verdict = "PHISHING"
    /\ \E u \in AcceptedWithDomain[locals.domain] : ExplainerVerdict(WithUrl(u)) = "SAFE"
    /\ \E u \in AcceptedWithDomain[locals.domain] :
           ExplainerVerdict([WithUrl(u) EXCEPT !.rule_fault = TRUE]) = None

\* ------------------------------------------------------------ C18

\* the hardening flags that are set at the end of the request
FlagsSet ==
    {f \in {"trusted_domain_override", "confidence_gating_applied", "private_ip_detected"} :
        locals[f]}

\* C18: after the layers a, b, c at most one of the three effect flags is
\* set, for every domain and probability.
C18_FlagsMutuallyExclusive ==
    OnClassifierPath => Cardinality(FlagsSet) <= 1

\* ------------------------------------------------------------ C20

\* the submitted string does not start with https://
NotHttps == request.url.scheme # "https"

\* C20: when the explainer runs on a URL that does not use HTTPS, a URL
\* with no scheme included, its first evidence item is a Protocol Security
\* warning and its verdict is SUSPICIOUS or PHISHING; in fallback mode the
\* response is then SUSPICIOUS unless the domain is in the fallback trusted
\* set.
C20_NoHttpsIsFlagged ==
    Done /\ ~request.rule_fault /\ NotHttps =>
        /\ locals.rule_result.evidence[1] = Ev("Protocol Security", "warning")
        /\ locals.rule_result.verdict \in {"SUSPICIOUS", "PHISHING"}
        /\ locals.rule_result.riskLevel \in {"Medium", "High"}
        /\ FallbackMode /\ locals.domain \notin FallbackSafeHosts
              => response.verdict = "SUSPICIOUS"

\* ------------------------------------------------------------ C17

\* C17: in one RuleEngine.analyze evaluation every rule leaves the verdict
\* at least as severe as it found it (SAFE < SUSPICIOUS < PHISHING), for
\* every combination of feature values, and the risk level goes with the
\* verdict after every rule and in the returned dictionary: SAFE / Low,
\* SUSPICIOUS / Medium, PHISHING / High.
C17_RuleVerdictRatchet ==
    /\ [][Severity(locals'.verdict) >= Severity(locals.verdict)]_vars
    /\ [](locals.riskLevel = RiskOf(locals.verdict))
    /\ [](pc = "returned" =>
              /\ response.verdict = locals.verdict
              /\ response.riskLevel = RiskOf(response.verdict))

\* the IP rule made the verdict PHISHING, the URL is long, and the returned
\* verdict is PHISHING / High
C17_Witness ==
    /\ pc = "returned"
    /\ request.features.is_ip_address = 1
    /\ request.features.url_length > 75
    /\ request.features.suspicious_keyword_count > 0
    /\ response.verdict = "PHISHING"
    /\ response.riskLevel = "High"

\* ------------------------------------------------------------ C19

\* the labels of the evidence items of the six rules, in rule order
RuleLabels ==
    << "Protocol Security", "Domain Extension", "IP Address Usage", "Brand Imitation",
       "URL Structure", "Content Indicators" >>

\* C19: the evidence list returned by RuleEngine.analyze has one item for
\* each of the six rules, in rule order, whichever rules fire.
C19_SixEvidenceItems ==
    pc = "returned" =>
        /\ Len(response.evidence) = 6
        /\ \A i \in 1..6 : response.evidence[i].label = RuleLabels[i]

\* ------------------------------------------------------------ C12

\* a response has been built, whatever exit the request took
Answered == pc = "done"

\* C12: every response of analyze_url, on the success path and on every
\* failure path, carries a verdict in {SAFE, SUSPICIOUS, PHISHING} and a
\* riskLevel in {Low, Medium, High}; every 400 and 500 response carries
\* SUSPICIOUS and Medium.
C12_AlwaysAVerdict ==
    Answered =>
        /\ response.status \in {200, 400, 500}
        /\ response.verdict \in {"SAFE", "SUSPICIOUS", "PHISHING"}
        /\ response.riskLevel \in {"Low", "Medium", "High"}
        /\ response.status \in {400, 500} =>
              response.verdict = "SUSPICIOUS" /\ response.riskLevel = "Medium"

\* a url that is null reaches the outer exception handler: 500 with
\* SUSPICIOUS / Medium
C12_Witness ==
    /\ Answered
    /\ request.url.type = "null"
    /\ locals.exit = "internal_error"
    /\ response.status = 500
    /\ response.verdict = "SUSPICIOUS"
    /\ response.riskLevel = "Medium"

\* ------------------------------------------------------------ C13

\* the request has an input error: no url, a url that is not a string, an
\* empty or blank url, one longer than 2000 characters, one with an
\* unmatched bracket or without an authority
InputError ==
    /\ Answered
    /\ \/ request.url.type # "str"
       \/ StrippedLen(request.url) = 0
       \/ StrippedLen(request.url) > 2000
       \/ request.url.bracket /\ request.url.scheme \in {"", "http", "https"}
       \/ AuthorityLen(request.url) = 0 /\ request.url.scheme \in {"", "http", "https"}

\* C13: every input error is answered with status 400 and a
\* SUSPICIOUS / Medium advisory verdict, never with 500 and never with a
\* classification result.
C13_InputErrorsGive400 ==
    InputError =>
        /\ response.status = 400
        /\ response.verdict = "SUSPICIOUS"
        /\ response.riskLevel = "Medium"
        /\ locals.exit # "response"

\* ------------------------------------------------------------ C14

\* the string starts with a scheme that is not http or https
ForeignScheme(url) == url.scheme \notin {"", "http", "https"}

\* the reasons for which validate_url is said to reject: not a string, empty
\* after trimming, longer than 2000 characters, a scheme other than
\* http/https, no authority (a string urlparse cannot split has none)
Rejectable(url) ==
    \/ url.type # "str"
    \/ StrippedLen(url) = 0
    \/ StrippedLen(url) > 2000
    \/ ForeignScheme(url)
    \/ AuthorityLen(url) = 0
    \/ url.bracket

\* C14: validate_url returns false exactly for those reasons; in particular a
\* string with a scheme other than http/https, such as ftp://host/path, is
\* rejected, and userinfo, IP-literal hosts, long paths, unusual TLDs,
\* queries and fragments do not cause rejection.
C14_ValidateRejectsExactly ==
    pc = "validate_url" => (response = FALSE <=> Rejectable(request.url))

\* ------------------------------------------------------------ C15

\* C15: for every string, the empty string, a bare word and a string that
\* urlparse cannot split included, extract_features does not raise and
\* returns a list of exactly 7 numbers, each a finite non-negative value
\* and the four flags 0 or 1; when parsing fails the entries taken from the
\* parse are 0.
C15_SevenFiniteFeatures ==
    pc = "extract_features" /\ request.url.type = "str" =>
        /\ ~response.raises
        /\ Len(response.value) = 7
        /\ \A i \in 1..7 : response.value[i] \in Nat
        /\ \A i \in 4..6 : response.value[i] \in {0, 1}
        /\ response.value[1] = UrlLen(request.url)
        /\ Parse(Strip(request.url), "https").raises =>
              \A i \in {2, 3, 5, 6, 7} : response.value[i] = 0

\* "http://[example.com", which urlparse refuses, gives
\* [19, 0, 0, 0, 0, 0, 0], and the empty string [0, 0, 0, 1, 0, 0, 0]
C15_Witness ==
    /\ pc = "extract_features"
    /\ request.url = [Url("http", ExampleCom, <<>>) EXCEPT !.bracket = TRUE]
    /\ response = [raises |-> FALSE, value |-> <<19, 0, 0, 0, 0, 0, 0>>]
    /\ extract_features_call(EmptyString).value = <<0, 0, 0, 1, 0, 0, 0>>

\* ------------------------------------------------------------ C16

\* C16: no request changes the state the requests share, and in every
\* interleaving of two workers two answered requests with the identical
\* URL and classifier behaviour carry identical results.
C16_NoSharedMutation ==
    /\ [][ml_model' = ml_model]_vars
    /\ [](\A v, w \in Workers :
              pc[v] = "done" /\ pc[w] = "done" /\ request[v] = request[w]
                  => response[v] = response[w])

\* both workers have answered the same request, one whose classifier call
\* raised, and the classifier is still loaded
C16_Witness ==
    /\ pc[1] = "done"
    /\ pc[2] = "done"
    /\ request[1] = request[2]
    /\ request[1].clf.raises
    /\ ml_model = "predict_proba"
    /\ response[1] = response[2]
    /\ response[1].status = 200

\* ------------------------------------------------------------ C21

\* the rule feature extractor or the rule engine raised in an answered
\* request that passed validation
RuleFault == Done /\ request.rule_fault

\* what the same request gets when the explainer does not fail
WithoutFault == BuildResponse(Handler(ml_model, [request EXCEPT !.rule_fault = FALSE]))

\* the response carries the placeholder lists
PlaceholderLists ==
    /\ response.evidence = RulePlaceholder.evidence
    /\ response.identificationTips = RulePlaceholder.identificationTips
    /\ response.actionSteps = RulePlaceholder.actionSteps

\* C21 as stated: an explainer failure still gives 200 with the placeholder
\* lists, the classifier's verdict when the classifier is available, and
\* SUSPICIOUS / Medium / 0 when it is not, for every domain.
C21_RuleFaultAbsorbed ==
    RuleFault =>
        /\ response.status = 200
        /\ PlaceholderLists
        /\ response.mlAvailable => response.verdict = WithoutFault.verdict
        /\ ~response.mlAvailable =>
              /\ response.verdict = "SUSPICIOUS"
              /\ response.riskLevel = "Medium"
              /\ response.confidence = 0

\* C21 amended: an explainer failure still gives 200 with the placeholder
\* lists; with the classifier available the verdict, riskLevel and
\* confidence are those of the classifier path; without it the result is
\* SUSPICIOUS / Medium / 0, except for a domain of the fallback trusted set,
\* which gets SAFE / Low / 0.
C21_RuleFaultAbsorbedUnlessTrusted ==
    RuleFault =>
        /\ response.status = 200
        /\ PlaceholderLists
        /\ response.mlAvailable =>
              /\ response.verdict = WithoutFault.verdict
              /\ response.riskLevel = WithoutFault.riskLevel
              /\ response.confidence = WithoutFault.confidence
        /\ ~response.mlAvailable =>
              /\ response.confidence = 0
              /\ locals.domain \in FallbackSafeHosts =>
                    response.verdict = "SAFE" /\ response.riskLevel = "Low"
              /\ locals.domain \notin FallbackSafeHosts =>
                    response.verdict = "SUSPICIOUS" /\ response.riskLevel = "Medium"

\* https://example.com with no classifier and a failing explainer:
\* SUSPICIOUS / Medium / 0 with the placeholder lists, where the working
\* explainer would have said SAFE
C21_Witness ==
    /\ RuleFault
    /\ ml_model = None
    /\ request.url = Url("https", ExampleCom, <<>>)
    /\ response.verdict = "SUSPICIOUS"
    /\ response.riskLevel = "Medium"
    /\ response.confidence = 0
    /\ response.evidence = <<>>
    /\ WithoutFault.verdict = "SAFE"

\* ------------------------------------------------------------ C22

\* C22: in every 200 result the riskLevel goes with the verdict: SAFE with
\* Low, SUSPICIOUS with Medium, PHISHING with High, on the classifier path
\* with any combination of hardening layers and on the fallback path.
C22_RiskMatchesVerdict ==
    Done => response.riskLevel = RiskOf(response.verdict)

\* ------------------------------------------------------------ C23

\* the loaded classifier has predict and no predict_proba
PredictOnly == Done /\ ml_model = "predict"

\* C23: with a predict-only classifier the final verdict is never PHISHING.
\* When the call succeeds, a prediction of 1 is reported with confidence
\* 80.0 and ends as SUSPICIOUS through confidence gating, or as SAFE for an
\* allow-listed domain; any other prediction ends as SAFE with confidence
\* 20.0; no other confidence is reported on this path.
C23_PredictOnlyNeverPhishing ==
    PredictOnly =>
        /\ response.verdict # "PHISHING"
        /\ response.mlAvailable =>
              /\ response.confidence \in {Round2(80000), Round2(20000)}
              /\ request.clf.prediction = 1 =>
                    /\ response.confidence = Round2(80000)
                    /\ locals.domain \in AllowListedHosts =>
                          response.verdict = "SAFE" /\ locals.trusted_domain_override
                    /\ locals.domain \notin AllowListedHosts =>
                          response.verdict = "SUSPICIOUS" /\ locals.confidence_gating_applied
              /\ request.clf.prediction # 1 =>
                    response.verdict = "SAFE" /\ response.confidence = Round2(20000)

\* a prediction of 1 for www.paypa1.com: SUSPICIOUS with confidence 80.0
C23_Witness ==
    /\ PredictOnly
    /\ response.mlAvailable
    /\ request.clf.prediction = 1
    /\ locals.domain = Name(<<"www", "paypa1", "com">>)
    /\ locals.raw_verdict = "PHISHING"
    /\ response.verdict = "SUSPICIOUS"
    /\ response.confidence = 8000

============================================================================
